---- MODULE Spec2Model ----
(***************************************************************************)
(* A model of the etlr command line client: the WorkflowsClient payload    *)
(* builders (src/etlr/client.py), the environment reconciliation and the   *)
(* click commands (src/etlr/main.py).  One invocation of the program is    *)
(* one behaviour: a command handler runs up to its first HTTP request, the *)
(* server (or the transport) answers, and the handler continues.           *)
(*                                                                         *)
(* Text is modelled as a sequence of one-character strings where the code  *)
(* takes it apart (the -e KEY=VALUE items, variable names and values), and *)
(* as an opaque string elsewhere.  Python's None is the string None for    *)
(* optional strings and the empty set for an optional status code.         *)
(***************************************************************************)
EXTENDS Integers, Sequences, FiniteSets, TLC

VARIABLES
    pc,         \* "idle" (not started), "awaiting" (a request is in flight), "done"
    inv,        \* the command line and the environment click reads while parsing it
    world,      \* what the handler read later: file content, os.environ, prompt answer
    client,     \* the WorkflowsClient instance (its api_key), NoClient before get_client
    locals,     \* deploy's locals after the push: workflow_id, deploy_name, deploy_stage
    calls,      \* the client operations called so far, in order
    requests,   \* the HTTP requests sent so far, in order: payload and X-API-KEY
    responses,  \* what came back for each answered request, in order
    result,     \* what the last answered _request returned or raised
    gathered,   \* what gather_environment_variables echoed and returned or raised
    stderr,     \* the error messages echoed with err=True
    exit_code   \* the process exit code, meaningful once pc = "done"

vars ==
    <<pc, inv, world, client, locals, calls, requests, responses, result, gathered,
      stderr, exit_code>>

----------------------------------------------------------------------------
(* Bounds and input universes *)

\* lengths of workflow.environment and of the -e list in a deploy invocation
MaxDecls == 1
MaxOverrides == 1
\* the same, where the reconciliation is explored on its own
GatherMaxDecls == 2
GatherMaxOverrides == 2

None == "<None>"

\* Python truthiness of an Optional[str]
Truthy(x) == x # None /\ x # ""

Ids == {None, "", "uuid-1"}
Names == {None, "", "wf"}
Stages == {None, "", "prod"}
StageEnvs == {None, "staging"}
ApiKeyFlags == {None, "", "flag-key"}
ApiKeyEnvs == {None, "", "env-key"}
Versions == {2}
YamlFiles == {None, "workflow-file.yaml"}

\* environment variable names and values, as character sequences
VarA == <<"A">>
VarB == <<"B">>
VarC == <<"C">>
EnvValue == <<"1">>

\* os.environ restricted to the names a workflow may declare
Environs == UNION {[D -> {EnvValue}] : D \in SUBSET {VarA, VarB}}

\* the -e items: A=2, C=2=3 (an undeclared key, a value holding "="), BAD
OverrideItems ==
    { <<"A", "=", "2">>, <<"C", "=", "2", "=", "3">>, <<"B", "A", "D">> }
\* and A=3, B=2 where the reconciliation is explored on its own
GatherOverrideItems == OverrideItems \cup { <<"A", "=", "3">>, <<"B", "=", "2">> }

SeqsUpTo(S, n) == UNION {[1..k -> S] : k \in 0..n}


----------------------------------------------------------------------------
(* client.py: APIError and the payload builders *)

NoStatus == {}

APIError(message, status_code, details) ==
    [message |-> message, status_code |-> status_code, details |-> details]

\* A message is the sequence of the parts its format string joins.
UsageError ==
    APIError(<<"Must provide either workflow_id or both name and stage">>, NoStatus, None)

Raise(e) == [raised |-> TRUE, exception |-> "APIError", error |-> e]
Payload(p) == [raised |-> FALSE, payload |-> p]

list_workflows == Payload([action |-> "list"])

\* get_workflow testing "is not None" where the code tests truthiness
get_workflow_not_none(workflow_id, name, stage) ==
    IF workflow_id # None
    THEN Payload([action |-> "get", workflow_id |-> workflow_id])
    ELSE IF name # None /\ stage # None
         THEN Payload([action |-> "get", name |-> name, stage |-> stage])
         ELSE Raise(UsageError)

get_workflow(workflow_id, name, stage) ==
    IF Truthy(workflow_id)
    THEN Payload([action |-> "get", workflow_id |-> workflow_id])
    ELSE IF Truthy(name) /\ Truthy(stage)
         THEN Payload([action |-> "get", name |-> name, stage |-> stage])
         ELSE Raise(UsageError)

\* delete_workflow preferring the name and stage pair to the UUID
delete_workflow_pair_first(workflow_id, name, stage) ==
    IF Truthy(name) /\ Truthy(stage)
    THEN Payload([action |-> "delete", name |-> name, stage |-> stage])
    ELSE IF Truthy(workflow_id)
         THEN Payload([action |-> "delete", workflow_id |-> workflow_id])
         ELSE Raise(UsageError)

delete_workflow(workflow_id, name, stage) ==
    IF Truthy(workflow_id)
    THEN Payload([action |-> "delete", workflow_id |-> workflow_id])
    ELSE IF Truthy(name) /\ Truthy(stage)
         THEN Payload([action |-> "delete", name |-> name, stage |-> stage])
         ELSE Raise(UsageError)

deploy_workflow(workflow_id, name, stage) ==
    IF Truthy(workflow_id)
    THEN Payload([action |-> "deploy", workflow_id |-> workflow_id])
    ELSE IF Truthy(name) /\ Truthy(stage)
         THEN Payload([action |-> "deploy", name |-> name, stage |-> stage])
         ELSE Raise(UsageError)

\* stop_workflow accepting a name without a stage
stop_workflow_name_alone(workflow_id, name, stage) ==
    IF Truthy(workflow_id)
    THEN Payload([action |-> "stop", workflow_id |-> workflow_id])
    ELSE IF Truthy(name)
         THEN Payload([action |-> "stop", name |-> name, stage |-> stage])
         ELSE Raise(UsageError)

stop_workflow(workflow_id, name, stage) ==
    IF Truthy(workflow_id)
    THEN Payload([action |-> "stop", workflow_id |-> workflow_id])
    ELSE IF Truthy(name) /\ Truthy(stage)
         THEN Payload([action |-> "stop", name |-> name, stage |-> stage])
         ELSE Raise(UsageError)

get_status(workflow_id, name, stage) ==
    IF Truthy(workflow_id)
    THEN Payload([action |-> "status", workflow_id |-> workflow_id])
    ELSE IF Truthy(name) /\ Truthy(stage)
         THEN Payload([action |-> "status", name |-> name, stage |-> stage])
         ELSE Raise(UsageError)

\* An Optional list is the empty set (None) or the singleton of the list.
NoList == {}
SomeList(l) == {l}
ListOf(o) == CHOOSE l \in o : TRUE
TruthyList(o) == o # NoList /\ ListOf(o) # <<>>

\* upsert_workflow leaving out the stage only when it is None
upsert_workflow_stage_not_none(yaml, env, stage) ==
    Payload(IF stage # None
            THEN IF TruthyList(env)
                 THEN [action |-> "upsert", workflow_yaml |-> yaml,
                       env |-> ListOf(env), stage |-> stage]
                 ELSE [action |-> "upsert", workflow_yaml |-> yaml, stage |-> stage]
            ELSE IF TruthyList(env)
                 THEN [action |-> "upsert", workflow_yaml |-> yaml, env |-> ListOf(env)]
                 ELSE [action |-> "upsert", workflow_yaml |-> yaml])

\* "if env:" and "if stage:" leave out None and the empty values
upsert_workflow(yaml, env, stage) ==
    LET base == [action |-> "upsert", workflow_yaml |-> yaml]
        withEnv == IF TruthyList(env)
                   THEN [action |-> "upsert", workflow_yaml |-> yaml, env |-> ListOf(env)]
                   ELSE base
    IN  Payload(IF Truthy(stage)
                THEN IF TruthyList(env)
                     THEN [action |-> "upsert", workflow_yaml |-> yaml,
                           env |-> ListOf(env), stage |-> stage]
                     ELSE [action |-> "upsert", workflow_yaml |-> yaml, stage |-> stage]
                ELSE withEnv)

\* list_versions sending the action of list_workflows
list_versions_as_list(workflow_id) ==
    Payload([action |-> "list", workflow_id |-> workflow_id])

list_versions(workflow_id) ==
    Payload([action |-> "list_versions", workflow_id |-> workflow_id])

client_get_version(workflow_id, version) ==
    Payload([action |-> "get_version", workflow_id |-> workflow_id, version |-> version])

\* restore_version leaving the version out of the payload
restore_version_unversioned(workflow_id, version) ==
    Payload([action |-> "restore_version", workflow_id |-> workflow_id])

restore_version(workflow_id, version) ==
    Payload([action |-> "restore_version", workflow_id |-> workflow_id,
             version |-> version])

----------------------------------------------------------------------------
(* client.py: __init__ and _request *)

NoClient == [api_key |-> None, constructed |-> FALSE]

\* the constructor rejecting only a key that is None
WorkflowsClient_is_none(api_key, ETLR_API_KEY) ==
    LET key == IF Truthy(api_key) THEN api_key ELSE ETLR_API_KEY
    IN  IF key = None
        THEN Raise(APIError(<<"API key not provided. Set ETLR_API_KEY environment variable or pass api_key parameter.">>,
                            NoStatus, None))
        ELSE [raised |-> FALSE, client |-> [api_key |-> key, constructed |-> TRUE]]

\* "api_key or os.getenv(...)": the first truthy one, else the second operand
WorkflowsClient(api_key, ETLR_API_KEY) ==
    LET key == IF Truthy(api_key) THEN api_key ELSE ETLR_API_KEY
    IN  IF ~Truthy(key)
        THEN Raise(APIError(<<"API key not provided. Set ETLR_API_KEY environment variable or pass api_key parameter.">>,
                            NoStatus, None))
        ELSE [raised |-> FALSE, client |-> [api_key |-> key, constructed |-> TRUE]]

\* What the server or the transport does with one POST.
NoWorkflow == [id |-> None, name |-> None, stage |-> None]
\* a JSON object and the fields of it the code looks at
Body(has_error, error, has_details, details, has_workflow, workflow) ==
    [object |-> TRUE, text |-> FALSE,
     has_error |-> has_error, error |-> error, has_details |-> has_details,
     details |-> details, has_workflow |-> has_workflow, workflow |-> workflow]
\* {"text": response.text}, made of a body that is not JSON
TextBody == [Body(FALSE, None, FALSE, None, FALSE, NoWorkflow) EXCEPT !.text = TRUE]
\* a JSON value that is not an object: a list, a string, a number, null
NotObject == [Body(FALSE, None, FALSE, None, FALSE, NoWorkflow) EXCEPT !.object = FALSE]
Http(status, json, body) == [kind |-> "http", status |-> status, json |-> json, body |-> body]

Responses ==
    { Http(200, TRUE, Body(FALSE, None, FALSE, None, TRUE,
                           [id |-> "uuid-9", name |-> "wf-9", stage |-> "dev"])),
      Http(200, TRUE, Body(FALSE, None, FALSE, None, TRUE,
                           [id |-> "", name |-> "wf-9", stage |-> "dev"])),
      Http(200, TRUE, Body(FALSE, None, FALSE, None, FALSE, NoWorkflow)),
      Http(200, FALSE, TextBody),
      Http(404, TRUE, Body(TRUE, <<"not found">>, TRUE, "details", TRUE,
                           [id |-> "uuid-9", name |-> "wf-9", stage |-> "dev"])),
      Http(500, FALSE, TextBody),
      [kind |-> "transport", status |-> 0, json |-> FALSE, body |-> TextBody] }

\* the responses _request is explored with on its own: also JSON bodies that
\* are not objects
RequestResponses ==
    Responses \cup {Http(200, TRUE, NotObject), Http(502, TRUE, NotObject)}

\* an exception that is not an APIError leaving the client
Uncaught(name) ==
    [raised |-> TRUE, exception |-> name, error |-> APIError(<<name>>, NoStatus, None)]

\* nothing returned yet
NoResult == [raised |-> FALSE, data |-> TextBody]

\* _request without the "if not response.ok" check
_request_status_unchecked(response) ==
    IF response.kind = "transport"
    THEN Raise(APIError(<<"Request failed: ", "RequestException">>, NoStatus, None))
    ELSE [raised |-> FALSE, data |-> IF response.json THEN response.body ELSE TextBody]

\* lines 54-71 once requests.post has returned or failed with a RequestException
_request(response) ==
    IF response.kind = "transport"
    THEN Raise(APIError(<<"Request failed: ", "RequestException">>, NoStatus, None))
    ELSE LET data == IF response.json THEN response.body ELSE TextBody
         IN  IF ~(response.status < 400)
             THEN IF ~data.object
                  THEN Uncaught("AttributeError")      \* data.get on a non-dict
                  ELSE Raise(APIError(IF data.has_error THEN data.error
                                      ELSE <<"HTTP ", response.status>>,
                                      {response.status},
                                      IF data.has_details THEN data.details ELSE None))
             ELSE [raised |-> FALSE, data |-> data]

----------------------------------------------------------------------------
(* main.py: gather_environment_variables *)

\* A declaration of workflow.environment: a bare string, or a mapping that may
\* lack the name and the secret field.
DeclStr(n) ==
    [form |-> "str", has_name |-> TRUE, name |-> n, has_secret |-> FALSE, secret |-> FALSE]
DeclObj(has_name, n, has_secret, sec) ==
    [form |-> "obj", has_name |-> has_name, name |-> n, has_secret |-> has_secret,
     secret |-> sec]

Declarations ==
    { DeclStr(VarA), DeclObj(TRUE, VarA, TRUE, TRUE), DeclObj(TRUE, VarB, FALSE, FALSE),
      DeclObj(FALSE, <<>>, TRUE, TRUE) }

\* What yaml.safe_load makes of the file content.
Yaml(kind, environment) == [kind |-> kind, environment |-> environment]
YamlDocs(n) ==
    { Yaml(k, <<>>) : k \in {"invalid", "not_mapping", "no_workflow",
                             "workflow_not_mapping", "no_environment"} }
    \cup { Yaml("environment", ds) : ds \in SeqsUpTo(Declarations, n) }

\* a Python dict: insertion ordered, assignment to a present key keeps its place
DictHas(d, k) == \E i \in 1..Len(d) : d[i].name = k

\* a list of pairs that takes every assignment as a new entry
DictSet_append(d, k, v) == Append(d, [name |-> k, value |-> v])

DictSet(d, k, v) ==
    IF DictHas(d, k)
    THEN [i \in 1..Len(d) |-> IF d[i].name = k THEN [name |-> k, value |-> v] ELSE d[i]]
    ELSE Append(d, [name |-> k, value |-> v])

\* item.split("=", 1)
HasEq(item) == \E i \in 1..Len(item) : item[i] = "="
FirstEq(item) ==
    CHOOSE i \in 1..Len(item) : item[i] = "=" /\ \A j \in 1..(i - 1) : item[j] # "="
SplitKey(item) == SubSeq(item, 1, FirstEq(item) - 1)
SplitValue(item) == SubSeq(item, FirstEq(item) + 1, Len(item))

\* the loop over cli_overrides (lines 68-72 and 105-109): stops at the first
\* item without "="
RECURSIVE apply_overrides(_, _)
apply_overrides(items, d) ==
    IF items = <<>>
    THEN [ok |-> TRUE, dict |-> d, item |-> <<>>]
    ELSE IF ~HasEq(Head(items))
         THEN [ok |-> FALSE, dict |-> d, item |-> Head(items)]
         ELSE apply_overrides(Tail(items),
                              DictSet(d, SplitKey(Head(items)), SplitValue(Head(items))))

\* the declarations loop with a declaration secret unless it says otherwise
RECURSIVE scan_declarations_secret_default(_, _, _)
scan_declarations_secret_default(decls, environ, acc) ==
    IF decls = <<>>
    THEN acc
    ELSE LET env_def == Head(decls)
             is_secret == IF env_def.form = "obj" /\ env_def.has_secret
                          THEN env_def.secret
                          ELSE TRUE
             skip == ~env_def.has_name \/ env_def.name = <<>>
             name == env_def.name
             secrets == IF is_secret THEN acc.secret_vars \cup {name}
                        ELSE acc.secret_vars
         IN  IF skip
             THEN scan_declarations_secret_default(Tail(decls), environ, acc)
             ELSE IF name \notin DOMAIN environ
                  THEN scan_declarations_secret_default(Tail(decls), environ,
                           [acc EXCEPT !.secret_vars = secrets,
                                       !.missing = Append(acc.missing, name)])
                  ELSE scan_declarations_secret_default(Tail(decls), environ,
                           [acc EXCEPT !.secret_vars = secrets,
                                       !.env_vars = DictSet(acc.env_vars, name,
                                                            environ[name])])

\* the loop over env_declarations (lines 81-102)
RECURSIVE scan_declarations(_, _, _)
scan_declarations(decls, environ, acc) ==
    IF decls = <<>>
    THEN acc
    ELSE LET env_def == Head(decls)
             is_secret == IF env_def.form = "obj"
                          THEN env_def.has_secret /\ env_def.secret
                          ELSE FALSE
             skip == ~env_def.has_name \/ env_def.name = <<>>
             name == env_def.name
             secrets == IF is_secret THEN acc.secret_vars \cup {name}
                        ELSE acc.secret_vars
         IN  IF skip
             THEN scan_declarations(Tail(decls), environ, acc)
             ELSE IF name \notin DOMAIN environ
                  THEN scan_declarations(Tail(decls), environ,
                           [acc EXCEPT !.secret_vars = secrets,
                                       !.missing = Append(acc.missing, name)])
                  ELSE scan_declarations(Tail(decls), environ,
                           [acc EXCEPT !.secret_vars = secrets,
                                       !.env_vars = DictSet(acc.env_vars, name,
                                                            environ[name])])

Entry(name, value, secret) == [name |-> name, value |-> value, secret |-> secret]

Gathered(raised, message, missing, value) ==
    [called |-> TRUE, raised |-> raised, message |-> message, missing |-> missing,
     value |-> value, echoed |-> <<>>]
NotGathered ==
    [called |-> FALSE, raised |-> "", message |-> <<>>, missing |-> <<>>, value |-> <<>>,
     echoed |-> <<>>]

InvalidEnvFormat(item) ==
    Gathered("ClickException", <<"Invalid env format: ", item>>, <<>>, <<>>)

\* no declarations, and the overrides dropped after the format check
gather_cli_only_dropped(cli_overrides) ==
    LET o == apply_overrides(cli_overrides, <<>>)
    IN  IF ~o.ok THEN InvalidEnvFormat(o.item) ELSE Gathered("", <<>>, <<>>, <<>>)

\* lines 65-74: no declarations, the CLI overrides only, none of them secret
gather_cli_only(cli_overrides) ==
    LET o == apply_overrides(cli_overrides, <<>>)
    IN  IF ~o.ok
        THEN InvalidEnvFormat(o.item)
        ELSE Gathered("", <<>>, <<>>,
                      [i \in 1..Len(o.dict) |->
                          Entry(o.dict[i].name, o.dict[i].value, FALSE)])

\* the API format with the secrecy of an overridden value lost
to_api_format_plain(env_vars, secret_vars) ==
    [i \in 1..Len(env_vars) |-> Entry(env_vars[i].name, env_vars[i].value, FALSE)]

\* line 130: the list of {name, value, secret} objects, in the dict's order
to_api_format(env_vars, secret_vars) ==
    [i \in 1..Len(env_vars) |->
        Entry(env_vars[i].name, env_vars[i].value, env_vars[i].name \in secret_vars)]

\* the characters of names and values, in code point order
Alphabet == <<"*", "1", "2", "3", "7", "=", "A", "B", "C", "D">>
Ord(c) == CHOOSE i \in 1..Len(Alphabet) : Alphabet[i] = c

\* Python's str "<"
RECURSIVE StrLess(_, _)
StrLess(a, b) ==
    IF b = <<>> THEN FALSE
    ELSE IF a = <<>> THEN TRUE
    ELSE IF Head(a) # Head(b) THEN Ord(Head(a)) < Ord(Head(b))
    ELSE StrLess(Tail(a), Tail(b))

\* sorted(env_vars.items()): a dict's keys are distinct, so by name
RECURSIVE sorted(_)
sorted(d) ==
    IF d = <<>>
    THEN <<>>
    ELSE LET i == CHOOSE i \in 1..Len(d) :
                      \A j \in 1..Len(d) : ~StrLess(d[j].name, d[i].name)
         IN  <<d[i]>> \o sorted(SubSeq(d, 1, i - 1) \o SubSeq(d, i + 1, Len(d)))

Mask == <<"*", "*", "*">>

\* f"  {name}: {display_value}{secret_label}"
SummaryLine(name, display_value, secret_label) ==
    <<"  ", name, ": ", display_value, secret_label>>

\* the summary showing every value as it is
display_unmasked(env_vars, secret_vars) ==
    IF env_vars = <<>>
    THEN <<>>
    ELSE <<<<"\nEnvironment variables:">>>>
         \o [i \in 1..Len(env_vars) |->
                LET e == sorted(env_vars)[i]
                IN  SummaryLine(e.name, e.value,
                                IF e.name \in secret_vars THEN " (secret)" ELSE "")]
         \o <<<<"">>>>

\* lines 119-127: the summary echoed when env_vars is not empty
display(env_vars, secret_vars) ==
    IF env_vars = <<>>
    THEN <<>>
    ELSE <<<<"\nEnvironment variables:">>>>
         \o [i \in 1..Len(env_vars) |->
                LET e == sorted(env_vars)[i]
                IN  SummaryLine(e.name,
                                IF e.name \in secret_vars THEN Mask ELSE e.value,
                                IF e.name \in secret_vars THEN " (secret)" ELSE "")]
         \o <<<<"">>>>

\* gather_declared without the check of the missing names
gather_declared_unchecked(env_declarations, cli_overrides, environ) ==
    LET scanned == scan_declarations(env_declarations, environ,
                       [env_vars |-> <<>>, missing |-> <<>>, secret_vars |-> {}])
        o == apply_overrides(cli_overrides, scanned.env_vars)
    IN  IF ~o.ok
        THEN InvalidEnvFormat(o.item)
        ELSE [Gathered("", <<>>, <<>>, to_api_format(o.dict, scanned.secret_vars))
                 EXCEPT !.echoed = display(o.dict, scanned.secret_vars)]

\* lines 76-130: the declarations, then the overrides, then the missing check
gather_declared(env_declarations, cli_overrides, environ) ==
    LET scanned == scan_declarations(env_declarations, environ,
                       [env_vars |-> <<>>, missing |-> <<>>, secret_vars |-> {}])
        o == apply_overrides(cli_overrides, scanned.env_vars)
    IN  IF ~o.ok
        THEN InvalidEnvFormat(o.item)
        ELSE IF scanned.missing # <<>>
        THEN Gathered("ClickException",
                      <<"Missing required environment variables: ", scanned.missing>>,
                      scanned.missing, <<>>)
        ELSE [Gathered("", <<>>, <<>>, to_api_format(o.dict, scanned.secret_vars))
                 EXCEPT !.echoed = display(o.dict, scanned.secret_vars)]

\* lines 56-63: parse, then workflow.environment ([] when either key is absent)
gather_environment_variables(parsed, cli_overrides, environ) ==
    IF parsed.kind = "invalid"
    THEN Gathered("ClickException", <<"Invalid YAML: ", "YAMLError">>, <<>>, <<>>)
    ELSE IF parsed.kind \in {"not_mapping", "workflow_not_mapping"}
    THEN Gathered("AttributeError", <<"AttributeError">>, <<>>, <<>>)
    ELSE IF parsed.environment = <<>>
    THEN gather_cli_only(cli_overrides)
    ELSE gather_declared(parsed.environment, cli_overrides, environ)

----------------------------------------------------------------------------
(* main.py: the pieces every command shares *)

\* a click option that lets the environment variable win over the flag
click_option_envvar_first(flag, envvar) ==
    IF Truthy(envvar) THEN envvar ELSE flag

\* a click option with envvar=...: the flag when given, else a non-empty
\* environment variable, else None
click_option(flag, envvar) ==
    IF flag # None THEN flag ELSE IF Truthy(envvar) THEN envvar ELSE None

Invocation(cmd, api_key, ETLR_API_KEY, workflow_id, name, stage, ETLR_STAGE) ==
    [cmd |-> cmd, api_key |-> api_key, ETLR_API_KEY |-> ETLR_API_KEY,
     workflow_id |-> workflow_id, name |-> name, stage |-> stage,
     ETLR_STAGE |-> ETLR_STAGE, yes |-> FALSE, version |-> 0,
     yaml_file |-> None, env |-> <<>>]

NoWorld ==
    [prompted |-> FALSE, answer |-> FALSE, workflow_yaml_exists |-> FALSE,
     read |-> FALSE, yaml |-> Yaml("unread", <<>>), environ |-> <<>>]

NoLocals == [pushed |-> FALSE, workflow_id |-> None, deploy_name |-> None,
             deploy_stage |-> None]

Line(label, text) == [label |-> label, text |-> text]

\* get_client not passing on the key the group callback stored
get_client_environment_only(i) == WorkflowsClient(None, i.ETLR_API_KEY)

\* get_client: the api key the group callback stored, then the constructor
get_client(i) == WorkflowsClient(click_option(i.api_key, i.ETLR_API_KEY), i.ETLR_API_KEY)

\* the lines handle_api_error echoes before sys.exit(1)
handle_api_error(e) ==
    <<Line("Error", e.message)>>
    \o (IF e.status_code # NoStatus /\ e.status_code # {0}
        THEN <<Line("Status Code", e.status_code)>> ELSE <<>>)
    \o (IF Truthy(e.details) THEN <<Line("Details", e.details)>> ELSE <<>>)

NoError == APIError(<<>>, NoStatus, None)

\* a client operation as called: its arguments, and what it raised before any request
Call(op, workflow_id, name, stage, r) ==
    [op |-> op, workflow_id |-> workflow_id, name |-> name, stage |-> stage,
     raised |-> r.raised, error |-> IF r.raised THEN r.error ELSE NoError]

Exit(code, lines) ==
    /\ pc' = "done"
    /\ exit_code' = code
    /\ stderr' = stderr \o lines

\* the request posted a second time
Send_retried(c, payload) ==
    /\ requests' = requests \o <<[payload |-> payload, api_key |-> c.api_key],
                                  [payload |-> payload, api_key |-> c.api_key]>>
    /\ pc' = "awaiting"
    /\ UNCHANGED <<exit_code, stderr>>

\* self._request(payload) up to requests.post: the request leaves with the key
Send(c, payload) ==
    /\ requests' = Append(requests, [payload |-> payload, api_key |-> c.api_key])
    /\ pc' = "awaiting"
    /\ UNCHANGED <<exit_code, stderr>>

\* "try: result = client.op(...) ... except APIError as e: handle_api_error(e)"
\* up to the request: r is what the payload builder made of its arguments
TryCall(c, op, workflow_id, name, stage, r) ==
    /\ calls' = Append(calls, Call(op, workflow_id, name, stage, r))
    /\ IF r.raised
       THEN Exit(1, handle_api_error(r.error)) /\ UNCHANGED requests
       ELSE Send(c, r.payload)

\* a handler that builds its client and calls one operation
Command(i, op, workflow_id, name, stage, r) ==
    LET c == get_client(i)
    IN  /\ inv' = i
        /\ UNCHANGED <<locals, gathered, responses, result>>
        /\ IF c.raised
           THEN /\ Exit(1, <<Line("Error", c.error.message)>>)
                /\ UNCHANGED <<client, calls, requests>>
           ELSE /\ client' = c.client
                /\ TryCall(c.client, op, workflow_id, name, stage, r)

Init ==
    /\ pc = "idle"
    /\ inv = Invocation("none", None, None, None, None, None, None)
    /\ world = NoWorld
    /\ client = NoClient
    /\ locals = NoLocals
    /\ calls = <<>>
    /\ requests = <<>>
    /\ responses = <<>>
    /\ result = NoResult
    /\ gathered = NotGathered
    /\ stderr = <<>>
    /\ exit_code = 0

----------------------------------------------------------------------------
(* main.py: the commands, each up to its first request *)

list_workflows_cmd ==
    /\ pc = "idle"
    /\ \E k \in ApiKeyFlags, ek \in ApiKeyEnvs :
          Command(Invocation("list", k, ek, None, None, None, None),
                  "list_workflows", None, None, None, list_workflows)
    /\ UNCHANGED world

get ==
    /\ pc = "idle"
    /\ \E k \in ApiKeyFlags, ek \in ApiKeyEnvs, id \in Ids, n \in Names, st \in Stages :
          Command(Invocation("get", k, ek, id, n, st, None),
                  "get_workflow", id, n, st, get_workflow(id, n, st))
    /\ UNCHANGED world

start ==
    /\ pc = "idle"
    /\ \E k \in ApiKeyFlags, ek \in ApiKeyEnvs, id \in Ids, n \in Names, st \in Stages :
          Command(Invocation("start", k, ek, id, n, st, None),
                  "deploy_workflow", id, n, st, deploy_workflow(id, n, st))
    /\ UNCHANGED world

stop ==
    /\ pc = "idle"
    /\ \E k \in ApiKeyFlags, ek \in ApiKeyEnvs, id \in Ids, n \in Names, st \in Stages :
          Command(Invocation("stop", k, ek, id, n, st, None),
                  "stop_workflow", id, n, st, stop_workflow(id, n, st))
    /\ UNCHANGED world

status ==
    /\ pc = "idle"
    /\ \E k \in ApiKeyFlags, ek \in ApiKeyEnvs, id \in Ids, n \in Names, st \in Stages :
          Command(Invocation("status", k, ek, id, n, st, None),
                  "get_status", id, n, st, get_status(id, n, st))
    /\ UNCHANGED world

\* click.confirm is asked only without --yes; a negative answer returns (exit 0)
delete ==
    /\ pc = "idle"
    /\ \E k \in ApiKeyFlags, ek \in ApiKeyEnvs, id \in Ids, n \in Names, st \in Stages,
          yes \in BOOLEAN, answer \in BOOLEAN :
          LET i == [Invocation("delete", k, ek, id, n, st, None) EXCEPT !.yes = yes]
          IN  /\ yes => ~answer         \* no prompt, no answer to choose
              /\ world' = [world EXCEPT !.prompted = ~yes, !.answer = answer]
              /\ IF ~yes /\ ~answer
                 THEN /\ inv' = i
                      /\ Exit(0, <<>>)
                      /\ UNCHANGED <<client, locals, calls, requests, responses, result, gathered>>
                 ELSE Command(i, "delete_workflow", id, n, st, delete_workflow(id, n, st))

versions ==
    /\ pc = "idle"
    /\ \E k \in ApiKeyFlags, ek \in ApiKeyEnvs, id \in Ids \ {None} :
          Command(Invocation("versions", k, ek, id, None, None, None),
                  "list_versions", id, None, None, list_versions(id))
    /\ UNCHANGED world

get_version ==
    /\ pc = "idle"
    /\ \E k \in ApiKeyFlags, ek \in ApiKeyEnvs, id \in Ids \ {None}, v \in Versions :
          Command([Invocation("get-version", k, ek, id, None, None, None)
                       EXCEPT !.version = v],
                  "get_version", id, None, None, client_get_version(id, v))
    /\ UNCHANGED world

\* restore going on to the request whatever click.confirm returned
restore_unconfirmed ==
    /\ pc = "idle"
    /\ \E k \in ApiKeyFlags, ek \in ApiKeyEnvs, id \in Ids \ {None}, v \in Versions,
          yes \in BOOLEAN, answer \in BOOLEAN :
          LET i == [Invocation("restore", k, ek, id, None, None, None)
                        EXCEPT !.version = v, !.yes = yes]
          IN  /\ yes => ~answer
              /\ world' = [world EXCEPT !.prompted = ~yes, !.answer = answer]
              /\ Command(i, "restore_version", id, None, None, restore_version(id, v))

restore ==
    /\ pc = "idle"
    /\ \E k \in ApiKeyFlags, ek \in ApiKeyEnvs, id \in Ids \ {None}, v \in Versions,
          yes \in BOOLEAN, answer \in BOOLEAN :
          LET i == [Invocation("restore", k, ek, id, None, None, None)
                        EXCEPT !.version = v, !.yes = yes]
          IN  /\ yes => ~answer
              /\ world' = [world EXCEPT !.prompted = ~yes, !.answer = answer]
              /\ IF ~yes /\ ~answer
                 THEN /\ inv' = i
                      /\ Exit(0, <<>>)
                      /\ UNCHANGED <<client, locals, calls, requests, responses, result, gathered>>
                 ELSE Command(i, "restore_version", id, None, None, restore_version(id, v))

\* the names the declarations loop looks up with os.getenv
DeclaredNames(doc) ==
    {doc.environment[j].name : j \in {j \in 1..Len(doc.environment) :
         doc.environment[j].has_name /\ doc.environment[j].name # <<>>}}

\* the part of os.environ the reconciliation of doc reads
EnvironsOf(doc) == UNION {[D -> {EnvValue}] : D \in SUBSET DeclaredNames(doc)}

\* lines 276-297: read the file, reconcile the environment, push
deploy_from_file(c, i, stage) ==
    \E exists \in BOOLEAN, readable \in BOOLEAN, doc \in YamlDocs(MaxDecls) :
    \E environ \in EnvironsOf(doc) :
        /\ i.yaml_file # None => exists       \* click.Path(exists=True)
        /\ ~exists => (~readable /\ doc.kind = "invalid" /\ environ = <<>>)
        /\ ~readable => (doc.kind = "invalid" /\ environ = <<>>)
        /\ IF ~exists
           THEN /\ world' = [world EXCEPT !.workflow_yaml_exists = FALSE]
                /\ Exit(1, <<Line("Error", <<"No workflow.yaml found in current directory. Provide a file or use --id/--name flags.">>)>>)
                /\ UNCHANGED <<locals, calls, requests, gathered>>
           ELSE IF ~readable
           THEN /\ world' = [world EXCEPT !.workflow_yaml_exists = TRUE]
                /\ Exit(1, <<Line("Error reading file", <<"Exception">>)>>)
                /\ UNCHANGED <<locals, calls, requests, gathered>>
           ELSE LET g == gather_environment_variables(doc, i.env, environ)
                    env_dict == g.value
                    r == upsert_workflow(doc, IF env_dict # <<>> THEN SomeList(env_dict)
                                              ELSE NoList, stage)
                IN  /\ world' = [world EXCEPT !.workflow_yaml_exists = TRUE,
                                              !.read = TRUE, !.yaml = doc,
                                              !.environ = environ]
                    /\ UNCHANGED locals
                    /\ gathered' = g
                    /\ IF g.raised = "ClickException"
                       THEN /\ Exit(1, <<Line("Error", g.message)>>)
                            /\ UNCHANGED <<calls, requests>>
                       ELSE IF g.raised # ""
                       THEN /\ Exit(1, <<Line("Traceback", g.message)>>)
                            /\ UNCHANGED <<calls, requests>>
                       ELSE TryCall(c, "upsert_workflow", None, None, stage, r)

\* deploy reading a file only when one is named on the command line
deploy_file_only ==
    /\ pc = "idle"
    /\ \E k \in ApiKeyFlags, ek \in ApiKeyEnvs, yaml_file \in YamlFiles,
          id \in Ids, n \in Names, st \in Stages, se \in StageEnvs,
          env \in SeqsUpTo(OverrideItems, MaxOverrides) :
          LET i == [Invocation("deploy", k, ek, id, n, st, se)
                        EXCEPT !.yaml_file = yaml_file, !.env = env]
              stage == click_option(st, se)
              c == get_client(i)
          IN  /\ inv' = i
              /\ UNCHANGED <<responses, result>>
              /\ IF c.raised
                 THEN /\ Exit(1, <<Line("Error", c.error.message)>>)
                      /\ UNCHANGED <<world, client, locals, calls, requests, gathered>>
                 ELSE /\ client' = c.client
                      /\ IF yaml_file # None
                         THEN deploy_from_file(c.client, i, stage)
                         ELSE /\ locals' = [locals EXCEPT !.workflow_id = id,
                                                !.deploy_name = n,
                                                !.deploy_stage = stage]
                              /\ UNCHANGED <<world, gathered>>
                              /\ TryCall(c.client, "deploy_workflow", id, n, stage,
                                         deploy_workflow(id, n, stage))

deploy ==
    /\ pc = "idle"
    /\ \E k \in ApiKeyFlags, ek \in ApiKeyEnvs, yaml_file \in YamlFiles,
          id \in Ids, n \in Names, st \in Stages, se \in StageEnvs,
          env \in SeqsUpTo(OverrideItems, MaxOverrides) :
          LET i == [Invocation("deploy", k, ek, id, n, st, se)
                        EXCEPT !.yaml_file = yaml_file, !.env = env]
              stage == click_option(st, se)
              c == get_client(i)
          IN  /\ inv' = i
              /\ UNCHANGED <<responses, result>>
              /\ IF c.raised
                 THEN /\ Exit(1, <<Line("Error", c.error.message)>>)
                      /\ UNCHANGED <<world, client, locals, calls, requests, gathered>>
                 ELSE /\ client' = c.client
                      /\ IF yaml_file # None \/ (~Truthy(id) /\ ~Truthy(n))
                         THEN deploy_from_file(c.client, i, stage)
                         ELSE /\ locals' = [locals EXCEPT !.workflow_id = id,
                                                !.deploy_name = n,
                                                !.deploy_stage = stage]
                              /\ UNCHANGED <<world, gathered>>
                              /\ TryCall(c.client, "deploy_workflow", id, n, stage,
                                         deploy_workflow(id, n, stage))

----------------------------------------------------------------------------
(* the handlers after a request has been answered *)

LastRequest == requests[Len(requests)]

\* the push result ignored where --id was given
workflow_info_keeps_option(push_result) ==
    LET info == IF push_result.has_workflow THEN push_result.workflow ELSE NoWorkflow
    IN  [pushed |-> TRUE,
         workflow_id |-> IF Truthy(inv.workflow_id) THEN inv.workflow_id ELSE info.id,
         deploy_name |-> info.name, deploy_stage |-> info.stage]

\* lines 304-308: workflow_id, deploy_name and deploy_stage from the push result
workflow_info(push_result) ==
    LET info == IF push_result.has_workflow THEN push_result.workflow ELSE NoWorkflow
    IN  [pushed |-> TRUE, workflow_id |-> info.id, deploy_name |-> info.name,
         deploy_stage |-> info.stage]

\* the push answered, and the deploy called whatever id the answer holds
push_returns_id_unchecked ==
    /\ pc = "awaiting"
    /\ LastRequest.payload.action = "upsert"
    /\ \E response \in Responses :
          LET r == _request(response)
              l == workflow_info(r.data)
          IN  /\ responses' = Append(responses, response)
              /\ result' = r
              /\ IF r.raised
                 THEN /\ Exit(1, handle_api_error(r.error))
                      /\ UNCHANGED <<locals, calls, requests>>
                 ELSE /\ locals' = l
                      /\ TryCall(client, "deploy_workflow", l.workflow_id,
                                 l.deploy_name, l.deploy_stage,
                                 deploy_workflow(l.workflow_id, l.deploy_name,
                                                 l.deploy_stage))
    /\ UNCHANGED <<inv, world, client, gathered>>

\* deploy, lines 297-325: the push has been answered
push_returns ==
    /\ pc = "awaiting"
    /\ LastRequest.payload.action = "upsert"
    /\ \E response \in Responses :
          LET r == _request(response)
              l == workflow_info(r.data)
          IN  /\ responses' = Append(responses, response)
              /\ result' = r
              /\ IF r.raised
                 THEN /\ Exit(1, handle_api_error(r.error))
                      /\ UNCHANGED <<locals, calls, requests>>
                 ELSE /\ locals' = l
                      /\ IF ~Truthy(l.workflow_id)
                         THEN /\ Exit(1, <<Line("Error", <<"Could not get workflow ID from push response">>)>>)
                              /\ UNCHANGED <<calls, requests>>
                         ELSE TryCall(client, "deploy_workflow", l.workflow_id,
                                      l.deploy_name, l.deploy_stage,
                                      deploy_workflow(l.workflow_id, l.deploy_name,
                                                      l.deploy_stage))
    /\ UNCHANGED <<inv, world, client, gathered>>

\* the APIError of a failed request reported, and the command ending normally
request_returns_exit_zero ==
    /\ pc = "awaiting"
    /\ LastRequest.payload.action # "upsert"
    /\ \E response \in Responses :
          LET r == _request(response)
          IN  /\ responses' = Append(responses, response)
              /\ result' = r
              /\ IF r.raised
                 THEN Exit(0, handle_api_error(r.error))
                 ELSE Exit(0, <<>>)
    /\ UNCHANGED <<inv, world, client, locals, calls, requests, gathered>>

\* every other request: the result is printed, or handle_api_error exits
request_returns ==
    /\ pc = "awaiting"
    /\ LastRequest.payload.action # "upsert"
    /\ \E response \in Responses :
          LET r == _request(response)
          IN  /\ responses' = Append(responses, response)
              /\ result' = r
              /\ IF r.raised
                 THEN Exit(1, handle_api_error(r.error))
                 ELSE Exit(0, <<>>)
    /\ UNCHANGED <<inv, world, client, locals, calls, requests, gathered>>

Next ==
    \/ list_workflows_cmd
    \/ get
    \/ delete
    \/ deploy
    \/ start
    \/ stop
    \/ status
    \/ versions
    \/ get_version
    \/ restore
    \/ push_returns
    \/ request_returns

Spec == Init /\ [][Next]_vars

----------------------------------------------------------------------------
(* The reconciliation on its own: gather_environment_variables applied to a
   document, a list of -e items and an environment, with longer lists than a
   whole deploy invocation is explored with. *)

reconcile ==
    /\ pc = "idle"
    /\ \E doc \in YamlDocs(GatherMaxDecls),
          env \in SeqsUpTo(GatherOverrideItems, GatherMaxOverrides) :
       \E environ \in EnvironsOf(doc) :
          /\ inv' = [inv EXCEPT !.cmd = "deploy", !.yaml_file = "workflow-file.yaml",
                                !.env = env]
          /\ world' = [world EXCEPT !.workflow_yaml_exists = TRUE, !.read = TRUE,
                                    !.yaml = doc, !.environ = environ]
          /\ gathered' = gather_environment_variables(doc, env, environ)
    /\ pc' = "done"
    /\ UNCHANGED <<client, locals, calls, requests, responses, result, stderr, exit_code>>

SpecGather == Init /\ [][reconcile]_vars

----------------------------------------------------------------------------
(* _request on its own: one payload of a client operation posted with the
   client's key, and every kind of answer. *)

Payloads ==
    {list_workflows.payload, list_versions("uuid-1").payload}
    \cup {client_get_version("uuid-1", v).payload : v \in Versions}
    \cup {restore_version("uuid-1", v).payload : v \in Versions}
    \cup {r.payload : r \in {r \in UNION {{get_workflow(id, n, st), delete_workflow(id, n, st),
                                            deploy_workflow(id, n, st),
                                            stop_workflow(id, n, st),
                                            get_status(id, n, st)} :
                                           id \in Ids, n \in Names, st \in Stages} :
                              ~r.raised}}

request ==
    /\ pc = "idle"
    /\ \E key \in {"flag-key", "env-key"}, payload \in Payloads,
          response \in RequestResponses :
          /\ client' = WorkflowsClient(key, None).client
          /\ requests' = Append(requests, [payload |-> payload, api_key |-> key])
          /\ responses' = Append(responses, response)
          /\ result' = _request(response)
    /\ pc' = "done"
    /\ UNCHANGED <<inv, world, locals, calls, gathered, stderr, exit_code>>

SpecRequest == Init /\ [][request]_vars

----------------------------------------------------------------------------
(* Vocabulary of the properties *)

Done == pc = "done"

IdOps == {"get_workflow", "delete_workflow", "deploy_workflow", "stop_workflow",
          "get_status"}

ActionOf(op) ==
    CASE op = "get_workflow" -> "get"
      [] op = "delete_workflow" -> "delete"
      [] op = "deploy_workflow" -> "deploy"
      [] op = "stop_workflow" -> "stop"
      [] op = "get_status" -> "status"
      [] OTHER -> "other"

\* neither a non-empty UUID nor a non-empty name together with a non-empty stage
Incomplete(workflow_id, name, stage) ==
    ~Truthy(workflow_id) /\ ~(Truthy(name) /\ Truthy(stage))

SentCalls == {j \in 1..Len(calls) : ~calls[j].raised}

\* deploy reads a file: a path is given, or neither --id nor --name
FileMode ==
    inv.cmd = "deploy"
    /\ (inv.yaml_file # None \/ (~Truthy(inv.workflow_id) /\ ~Truthy(inv.name)))

\* the stage a command receives: deploy's --stage falls back to ETLR_STAGE
StageGiven ==
    IF inv.cmd = "deploy" THEN click_option(inv.stage, inv.ETLR_STAGE) ELSE inv.stage

KeyResolvable == Truthy(inv.api_key) \/ Truthy(inv.ETLR_API_KEY)

Aborted == inv.cmd \in {"delete", "restore"} /\ world.prompted /\ ~world.answer

----------------------------------------------------------------------------
(* Properties *)

\* C1: a client operation get_workflow, delete_workflow, deploy_workflow,
\* stop_workflow or get_status called with no non-empty UUID and without both a
\* non-empty name and a non-empty stage raises an APIError that carries no
\* status code, and sends no request: every request sent belongs to a call
\* that did not raise.
C1_UsageErrorBeforeRequest ==
    /\ \A j \in 1..Len(calls) :
          (calls[j].op \in IdOps
           /\ Incomplete(calls[j].workflow_id, calls[j].name, calls[j].stage))
          => /\ calls[j].raised
             /\ calls[j].error.status_code = NoStatus
             /\ calls[j].error.message = UsageError.message
             /\ j = Len(calls)
             /\ pc # "awaiting"
    /\ Len(requests) = Cardinality(SentCalls)

C1_Witness ==
    /\ calls # <<>>
    /\ calls[1].op = "stop_workflow"
    /\ calls[1].workflow_id = ""
    /\ Truthy(calls[1].name)
    /\ ~Truthy(calls[1].stage)
    /\ calls[1].raised
    /\ requests = <<>>

\* the commands that need an identifier; deploy when it reads no file
IdentifierCommand ==
    \/ inv.cmd \in {"get", "delete", "start", "stop", "status"}
    \/ inv.cmd = "deploy" /\ ~FileMode

UsageErrorShown ==
    stderr = <<Line("Error", UsageError.message)>>

\* C2 as stated: an identifier-requiring command without a UUID and without a
\* complete name and stage pair ends in an error (the usage error, when an
\* API key is resolvable) with exit code 1 and no request, whatever the other
\* flags and the answers to prompts.
C2_AsStated ==
    (IdentifierCommand /\ Incomplete(inv.workflow_id, inv.name, StageGiven))
    => /\ Done
       /\ exit_code = 1
       /\ Len(stderr) = 1
       /\ KeyResolvable => UsageErrorShown
       /\ requests = <<>>

\* C2 amended: such an invocation sends no request; it ends with exit code 1,
\* showing the usage error when an API key is resolvable and the missing-key
\* error otherwise, except that delete without --yes answered negatively
\* ends with exit code 0 and no error, before the identifier is looked at.
C2_NoIdentifierNoRequest ==
    (IdentifierCommand /\ Incomplete(inv.workflow_id, inv.name, StageGiven))
    => /\ Done
       /\ requests = <<>>
       /\ IF Aborted
          THEN exit_code = 0 /\ stderr = <<>>
          ELSE /\ exit_code = 1
               /\ Len(stderr) = 1
               /\ stderr[1].label = "Error"
               /\ KeyResolvable => UsageErrorShown
               /\ ~KeyResolvable => ~UsageErrorShown

C2_Witness ==
    /\ inv.cmd = "deploy"
    /\ ~FileMode
    /\ Truthy(inv.name)
    /\ Incomplete(inv.workflow_id, inv.name, StageGiven)
    /\ Done
    /\ exit_code = 1
    /\ UsageErrorShown
    /\ requests = <<>>

\* C3: a request of get, delete, deploy, stop or status made with a non-empty
\* UUID is exactly {action, workflow_id}, also when a name and a stage were
\* passed; made without a UUID but with a name and a stage it is exactly
\* {action, name, stage}.
C3_PayloadByIdentifier ==
    /\ Len(requests) <= Len(calls)
    /\ \A j \in 1..Len(requests) :
          LET c == calls[j]
              p == requests[j].payload
          IN  c.op \in IdOps
              => /\ Truthy(c.workflow_id)
                    => /\ DOMAIN p = {"action", "workflow_id"}
                       /\ p.action = ActionOf(c.op)
                       /\ p.workflow_id = c.workflow_id
                 /\ ~Truthy(c.workflow_id)
                    => /\ DOMAIN p = {"action", "name", "stage"}
                       /\ p.action = ActionOf(c.op)
                       /\ p.name = c.name
                       /\ p.stage = c.stage
                       /\ Truthy(c.name) /\ Truthy(c.stage)

C3_Witness ==
    /\ Len(requests) = 1
    /\ calls[1].op = "delete_workflow"
    /\ Truthy(calls[1].workflow_id)
    /\ Truthy(calls[1].name)
    /\ Truthy(calls[1].stage)
    /\ requests[1].payload = [action |-> "delete", workflow_id |-> calls[1].workflow_id]

\* the vocabulary of the reconciliation's properties
Range(q) == {q[j] : j \in 1..Len(q)}

WellFormed(items) == \A j \in 1..Len(items) : HasEq(items[j])

FirstBad(items) ==
    items[CHOOSE j \in 1..Len(items) :
              ~HasEq(items[j]) /\ \A k \in 1..(j - 1) : HasEq(items[k])]

OverrideKeys(items) ==
    {SplitKey(items[j]) : j \in {j \in 1..Len(items) : HasEq(items[j])}}

\* the value of the last -e item whose key is k
LastOverrideValue(items, k) ==
    LET js == {j \in 1..Len(items) : HasEq(items[j]) /\ SplitKey(items[j]) = k}
    IN  SplitValue(items[CHOOSE j \in js : \A l \in js : l <= j])

\* the secrecy the YAML declares for n: false for a bare string and for a
\* mapping without a secret field
DeclaredSecret(doc, n) ==
    \E j \in 1..Len(doc.environment) :
        LET d == doc.environment[j]
        IN  d.has_name /\ d.name = n /\ d.form = "obj" /\ d.has_secret /\ d.secret

\* declared, absent from the process environment and not given with -e
NotSupplied ==
    {n \in DeclaredNames(world.yaml) :
        n \notin DOMAIN world.environ /\ n \notin OverrideKeys(inv.env)}

DeployRead == inv.cmd = "deploy" /\ world.read

\* the one message shown is the missing-variables error and names all of S
MissingMessageNames(S) ==
    /\ Len(stderr) = 1
    /\ stderr[1].label = "Error"
    /\ Len(stderr[1].text) = 2
    /\ stderr[1].text[1] = "Missing required environment variables: "
    /\ S \subseteq Range(stderr[1].text[2])

\* C4 as stated: in a deploy from a file, a declared variable that is absent
\* from the process environment and not overridden makes the deploy fail with
\* exit code 1 and a message naming every such variable, with no request sent.
C4_AsStated ==
    (DeployRead /\ NotSupplied # {})
    => /\ Done
       /\ exit_code = 1
       /\ requests = <<>>
       /\ MissingMessageNames(NotSupplied)

\* C4 amended: such a deploy fails with exit code 1 and no request; its message
\* names every such variable when every -e item has the form KEY=VALUE, and
\* is the invalid-format error of the first other item when one has not.
C4_MissingVariablesFail ==
    (DeployRead /\ NotSupplied # {})
    => /\ Done
       /\ exit_code = 1
       /\ requests = <<>>
       /\ IF WellFormed(inv.env)
          THEN MissingMessageNames(NotSupplied)
          ELSE stderr = <<Line("Error", <<"Invalid env format: ", FirstBad(inv.env)>>)>>

C4_Witness ==
    /\ DeployRead
    /\ NotSupplied = {VarA}
    /\ inv.env # <<>>
    /\ WellFormed(inv.env)
    /\ Done
    /\ exit_code = 1
    /\ requests = <<>>
    /\ MissingMessageNames({VarA})

\* C5: the reconciliation fails with the missing-variables error only when a
\* declared variable is missing from the process environment and from the
\* overrides; a declared variable absent from the environment but given with
\* -e is not reported, and the reconciliation succeeds with the override value.
C5_OverrideSuppliesMissing ==
    (gathered.called /\ world.yaml.kind = "environment" /\ WellFormed(inv.env))
    => /\ gathered.missing # <<>> => NotSupplied # {}
       /\ Range(gathered.missing) \cap OverrideKeys(inv.env) = {}
       /\ NotSupplied = {}
          => /\ gathered.raised = ""
             /\ \A n \in DeclaredNames(world.yaml) \cap OverrideKeys(inv.env) :
                   \E j \in 1..Len(gathered.value) :
                       /\ gathered.value[j].name = n
                       /\ gathered.value[j].value = LastOverrideValue(inv.env, n)

\* C6: a declared variable present in the process environment and overridden
\* with -e has exactly one entry in the reconciled list, with the (last)
\* override value and the secrecy of its declaration.
C6_OverrideKeepsSecrecy ==
    (gathered.called /\ gathered.raised = "")
    => \A n \in DeclaredNames(world.yaml) :
          (n \in DOMAIN world.environ /\ n \in OverrideKeys(inv.env))
          => /\ Cardinality({j \in 1..Len(gathered.value) :
                                gathered.value[j].name = n}) = 1
             /\ \A j \in 1..Len(gathered.value) :
                   gathered.value[j].name = n
                   => gathered.value[j] =
                          Entry(n, LastOverrideValue(inv.env, n),
                                DeclaredSecret(world.yaml, n))

C6_Witness ==
    /\ gathered.called
    /\ gathered.raised = ""
    /\ world.yaml.environment = <<DeclObj(TRUE, VarA, TRUE, TRUE)>>
    /\ VarA \in DOMAIN world.environ
    /\ inv.env = << <<"A", "=", "2">>, <<"A", "=", "3">> >>
    /\ gathered.value = <<Entry(VarA, <<"3">>, TRUE)>>

\* C7: the env list of an upsert request holds, for every declared variable
\* that is present in the process environment and not overridden, the entry
\* with the environment's value and the declared secrecy (false for a bare
\* string and for a mapping without a secret field).
C7_DeclaredFromEnvironment ==
    \A j \in 1..Len(requests) :
        requests[j].payload.action = "upsert"
        => \A n \in DeclaredNames(world.yaml) :
              (n \in DOMAIN world.environ /\ n \notin OverrideKeys(inv.env))
              => /\ "env" \in DOMAIN requests[j].payload
                 /\ \E k \in 1..Len(requests[j].payload.env) :
                       requests[j].payload.env[k] =
                           Entry(n, world.environ[n], DeclaredSecret(world.yaml, n))

C7_Witness ==
    /\ requests # <<>>
    /\ requests[1].payload.action = "upsert"
    /\ world.yaml.environment = <<DeclObj(TRUE, VarB, FALSE, FALSE)>>
    /\ inv.env = <<>>
    /\ "env" \in DOMAIN requests[1].payload
    /\ requests[1].payload.env = <<Entry(VarB, EnvValue, FALSE)>>

\* C8: an override whose key the YAML does not declare (also when the YAML
\* has no environment section) is in the reconciled list with the override
\* value and secret = false.
C8_UndeclaredOverride ==
    (gathered.called /\ gathered.raised = "")
    => \A k \in OverrideKeys(inv.env) \ DeclaredNames(world.yaml) :
          \E j \in 1..Len(gathered.value) :
              gathered.value[j] = Entry(k, LastOverrideValue(inv.env, k), FALSE)

C8_Witness ==
    /\ gathered.called
    /\ gathered.raised = ""
    /\ world.yaml.kind = "no_environment"
    /\ inv.env = << <<"C", "=", "2", "=", "3">> >>
    /\ gathered.value = <<Entry(VarC, <<"2", "=", "3">>, FALSE)>>

\* C9: a deploy from a file that ends with exit code 0 has sent exactly two
\* requests, the upsert and then the deploy, and the deploy names the
\* workflow by the id of the upsert response alone.
C9_UpsertThenDeploy ==
    (FileMode /\ Done /\ exit_code = 0)
    => /\ Len(requests) = 2
       /\ Len(responses) = 2
       /\ requests[1].payload.action = "upsert"
       /\ responses[1].body.has_workflow
       /\ requests[2].payload =
              [action |-> "deploy", workflow_id |-> responses[1].body.workflow.id]

C9_Witness ==
    /\ FileMode
    /\ Done
    /\ exit_code = 0
    /\ Truthy(inv.workflow_id)
    /\ Truthy(inv.name)
    /\ Len(requests) = 2
    /\ requests[2].payload.workflow_id # inv.workflow_id

\* a response that is an HTTP error status, or no response at all
Failed(response) == response.kind = "transport" \/ response.status >= 400

\* C10: once a request has failed (HTTP error or transport error) the
\* invocation is over: the failed request is the last one sent, so the deploy
\* request never follows a failed upsert and nothing is sent again.
C10_NoRequestAfterFailure ==
    /\ Len(responses) <= Len(requests)
    /\ \A j \in 1..Len(responses) :
          Failed(responses[j])
          => /\ j = Len(responses)
             /\ Len(requests) = j
             /\ Done

C10_Witness ==
    /\ FileMode
    /\ Len(responses) = 1
    /\ responses[1].kind = "http"
    /\ responses[1].status = 404
    /\ Len(requests) = 1
    /\ requests[1].payload.action = "upsert"
    /\ Done
    /\ exit_code = 1

\* C11: in a file-based deploy the stage of the upsert request follows the
\* precedence --stage, then ETLR_STAGE, then the YAML: a non-empty --stage is
\* the stage sent, whatever ETLR_STAGE is; without --stage a non-empty
\* ETLR_STAGE is the stage sent; with neither, the request has no stage field
\* and carries the document as read, so the stage written in the YAML stands.
C11_StagePrecedence ==
    \A j \in 1..Len(requests) :
        LET p == requests[j].payload
        IN  p.action = "upsert"
            => /\ FileMode
               /\ Truthy(inv.stage)
                  => ("stage" \in DOMAIN p /\ p.stage = inv.stage)
               /\ (inv.stage = None /\ Truthy(inv.ETLR_STAGE))
                  => ("stage" \in DOMAIN p /\ p.stage = inv.ETLR_STAGE)
               /\ (inv.stage = None /\ ~Truthy(inv.ETLR_STAGE))
                  => ("stage" \notin DOMAIN p /\ p.workflow_yaml = world.yaml)

C11_Witness ==
    /\ FileMode
    /\ inv.stage = "prod"
    /\ inv.ETLR_STAGE = "staging"
    /\ Len(requests) >= 1
    /\ requests[1].payload.action = "upsert"
    /\ requests[1].payload.stage = "prod"

\* C12: delete and restore invoked without --yes and answered negatively at
\* the confirmation prompt end with exit code 0, print no error, and no
\* client is built, no operation called and no request sent.
C12_NegativeAnswerAborts ==
    (inv.cmd \in {"delete", "restore"} /\ ~inv.yes /\ world.prompted /\ ~world.answer)
    => /\ Done
       /\ exit_code = 0
       /\ stderr = <<>>
       /\ client = NoClient
       /\ calls = <<>>
       /\ requests = <<>>

C12_Witness ==
    /\ inv.cmd = "restore"
    /\ ~inv.yes
    /\ world.prompted
    /\ ~world.answer
    /\ KeyResolvable
    /\ Truthy(inv.workflow_id)
    /\ Done
    /\ exit_code = 0
    /\ requests = <<>>

\* --yes was given, or the prompt was shown and answered affirmatively
Confirmed == inv.yes \/ (world.prompted /\ world.answer)

\* C13: delete and restore with an API key and an identifier, once confirmed
\* (--yes without a prompt, or an affirmative answer), send exactly one
\* request: delete with the identifier of the command line, restore_version
\* with the --id and --version of the command line. A request of delete or
\* restore exists only in states where the confirmation has been obtained.
C13_ConfirmedSendsOnce ==
    /\ (inv.cmd = "delete" /\ KeyResolvable /\ Confirmed
         /\ ~Incomplete(inv.workflow_id, inv.name, inv.stage))
        => /\ Len(requests) = 1
           /\ requests[1].payload =
                  IF Truthy(inv.workflow_id)
                  THEN [action |-> "delete", workflow_id |-> inv.workflow_id]
                  ELSE [action |-> "delete", name |-> inv.name, stage |-> inv.stage]
    /\ (inv.cmd = "restore" /\ KeyResolvable /\ Confirmed)
        => /\ Len(requests) = 1
           /\ requests[1].payload =
                  [action |-> "restore_version", workflow_id |-> inv.workflow_id,
                   version |-> inv.version]
    /\ (inv.cmd \in {"delete", "restore"} /\ requests # <<>>)
        => /\ Confirmed
           /\ inv.yes = ~world.prompted

C13_Witness ==
    /\ inv.cmd = "restore"
    /\ ~inv.yes
    /\ world.prompted
    /\ world.answer
    /\ Truthy(inv.workflow_id)
    /\ Done
    /\ exit_code = 0
    /\ Len(requests) = 1
    /\ requests[1].payload.version = inv.version

\* the error is on stderr as "Error: <message>", followed by its status code
\* when it has one
Formatted(e) ==
    /\ stderr # <<>>
    /\ stderr[1] = Line("Error", e.message)
    /\ e.status_code # NoStatus
       => (Len(stderr) >= 2 /\ stderr[2] = Line("Status Code", e.status_code))

\* C14: an invocation in which a client operation raised its usage error, a
\* request failed (HTTP error status or transport error), the client could
\* not be built or the reconciliation raised its usage error is over with
\* exit code 1 and that error formatted on stderr; an invocation that ended
\* with exit code 0 either was aborted at the prompt without a request, or
\* sent requests that were all answered with success and printed no error.
C14_ExitCodes ==
    /\ \A j \in 1..Len(calls) :
          calls[j].raised => (Done /\ exit_code = 1 /\ Formatted(calls[j].error))
    /\ \A j \in 1..Len(responses) :
          _request(responses[j]).raised
          => (Done /\ exit_code = 1 /\ Formatted(_request(responses[j]).error))
    /\ (inv.cmd # "none" /\ ~Aborted /\ ~KeyResolvable)
       => (Done /\ exit_code = 1
           /\ Formatted(WorkflowsClient(inv.api_key, inv.ETLR_API_KEY).error))
    /\ gathered.raised = "ClickException"
       => (Done /\ exit_code = 1 /\ stderr = <<Line("Error", gathered.message)>>)
    /\ (Done /\ exit_code = 0)
       => /\ stderr = <<>>
          /\ \/ Aborted /\ requests = <<>>
             \/ /\ requests # <<>>
                /\ Len(responses) = Len(requests)
                /\ \A j \in 1..Len(responses) : ~Failed(responses[j])
                /\ \A j \in 1..Len(calls) : ~calls[j].raised

C14_Witness ==
    /\ inv.cmd = "get"
    /\ Done
    /\ exit_code = 1
    /\ Len(responses) = 1
    /\ responses[1].kind = "http"
    /\ responses[1].status = 500
    /\ stderr = <<Line("Error", <<"HTTP ", 500>>), Line("Status Code", {500})>>

ConfigurationError ==
    APIError(<<"API key not provided. Set ETLR_API_KEY environment variable or pass api_key parameter.">>,
             NoStatus, None)

\* the constructor raises the configuration error for every combination of a
\* missing or empty --api-key and a missing or empty ETLR_API_KEY
NoKeyNoClient ==
    \A k \in ApiKeyFlags, ek \in ApiKeyEnvs :
        (~Truthy(k) /\ ~Truthy(ek))
        => /\ WorkflowsClient(click_option(k, ek), ek).raised
           /\ WorkflowsClient(click_option(k, ek), ek).error = ConfigurationError

\* C15 as stated: with no API key resolvable every command invocation ends
\* with exit code 1, the configuration error and no request.
C15_AsStated ==
    /\ NoKeyNoClient
    /\ (inv.cmd # "none" /\ ~KeyResolvable)
       => /\ Done
          /\ exit_code = 1
          /\ stderr = <<Line("Error", ConfigurationError.message)>>
          /\ requests = <<>>

\* C15 amended: with no API key resolvable no client is built and no request
\* is sent; the invocation ends with exit code 1 and the configuration
\* error, except delete and restore without --yes answered negatively, which
\* end with exit code 0 before the client is built.
C15_NoKeyNoRequest ==
    /\ NoKeyNoClient
    /\ (inv.cmd # "none" /\ ~KeyResolvable)
       => /\ Done
          /\ client = NoClient
          /\ calls = <<>>
          /\ requests = <<>>
          /\ IF Aborted
             THEN exit_code = 0 /\ stderr = <<>>
             ELSE /\ exit_code = 1
                  /\ stderr = <<Line("Error", ConfigurationError.message)>>

C15_Witness ==
    /\ inv.cmd = "deploy"
    /\ inv.api_key = ""
    /\ inv.ETLR_API_KEY = ""
    /\ Truthy(inv.workflow_id)
    /\ Done
    /\ exit_code = 1
    /\ stderr = <<Line("Error", ConfigurationError.message)>>
    /\ requests = <<>>

\* C16: every request carries as X-API-KEY the non-empty --api-key when one
\* was given, also when ETLR_API_KEY is set; it carries ETLR_API_KEY only
\* when --api-key is absent or empty. The key sent is never empty.
C16_ExplicitKeyFirst ==
    \A j \in 1..Len(requests) :
        /\ Truthy(requests[j].api_key)
        /\ Truthy(inv.api_key) => requests[j].api_key = inv.api_key
        /\ ~Truthy(inv.api_key) => requests[j].api_key = inv.ETLR_API_KEY

C16_Witness ==
    /\ inv.api_key = "flag-key"
    /\ inv.ETLR_API_KEY = "env-key"
    /\ Len(requests) = 2
    /\ requests[1].api_key = "flag-key"
    /\ requests[2].api_key = "flag-key"

\* what response.json() gave, or the {"text": ...} made of a body that is not JSON
Parsed(response) == IF response.json THEN response.body ELSE TextBody

\* C17: _request returns the parsed response exactly when the HTTP status is
\* a success; for a non-success status it raises an APIError that carries the
\* status, the body's "error" field ("HTTP <status>" when the field is absent
\* or the body is not JSON) and the body's "details" field; for a transport
\* failure it raises an APIError without a status code whose message wraps
\* the cause.
C17_RequestOutcome ==
    responses # <<>>
    => LET response == responses[Len(responses)]
       IN  IF response.kind = "transport"
           THEN /\ result.raised
                /\ result.exception = "APIError"
                /\ result.error.status_code = NoStatus
                /\ result.error.message = <<"Request failed: ", "RequestException">>
           ELSE IF response.status < 400
           THEN ~result.raised /\ result.data = Parsed(response)
           ELSE /\ result.raised
                /\ result.exception = "APIError"
                /\ result.error.status_code = {response.status}
                /\ result.error.message =
                       IF Parsed(response).has_error THEN Parsed(response).error
                       ELSE <<"HTTP ", response.status>>
                /\ result.error.details =
                       IF Parsed(response).has_details THEN Parsed(response).details
                       ELSE None

NoWorkflowYaml ==
    <<Line("Error", <<"No workflow.yaml found in current directory. Provide a file or use --id/--name flags.">>)>>

SecretNames == {n \in DeclaredNames(world.yaml) : DeclaredSecret(world.yaml, n)}

\* the values a secret may have in another run
SecretValues == {EnvValue, <<"7">>}

\* the -e items with the value of every key in S replaced by v
Revalued(items, S, v) ==
    [j \in 1..Len(items) |->
        IF HasEq(items[j]) /\ SplitKey(items[j]) \in S
        THEN SplitKey(items[j]) \o <<"=">> \o v
        ELSE items[j]]

\* the environments that differ from environ in the values of names in S only
EnvironVariants(environ, S) ==
    {e \in [DOMAIN environ -> SecretValues] :
        \A n \in DOMAIN environ \ S : e[n] = environ[n]}

\* C19: once the reconciliation of a YAML with declarations has run, every
\* summary line of a variable declared secret shows *** and the label
\* (secret), every secret entry of the result has such a line, and a run that
\* differs only in the values of the secret variables, in the environment
\* and in the -e items, echoes the same summary and raises the same error
\* with the same message.
C19_SecretsMasked ==
    (gathered.called /\ world.yaml.kind = "environment")
    => /\ \A k \in 1..Len(gathered.echoed) :
             (Len(gathered.echoed[k]) = 5 /\ gathered.echoed[k][2] \in SecretNames)
             => gathered.echoed[k] =
                    SummaryLine(gathered.echoed[k][2], Mask, " (secret)")
       /\ \A j \in 1..Len(gathered.value) :
             gathered.value[j].name \in SecretNames
             => \E k \in 1..Len(gathered.echoed) :
                    gathered.echoed[k] =
                        SummaryLine(gathered.value[j].name, Mask, " (secret)")
       /\ \A v \in SecretValues :
             \A e \in EnvironVariants(world.environ, SecretNames) :
                LET other == gather_environment_variables(
                                 world.yaml, Revalued(inv.env, SecretNames, v), e)
                IN  /\ other.echoed = gathered.echoed
                    /\ other.raised = gathered.raised
                    /\ other.message = gathered.message

C19_Witness ==
    /\ gathered.called
    /\ gathered.raised = ""
    /\ VarA \in SecretNames
    /\ gathered.value = <<Entry(VarB, EnvValue, FALSE), Entry(VarA, <<"3">>, TRUE)>>
    /\ gathered.echoed = << <<"\nEnvironment variables:">>,
                            SummaryLine(VarA, Mask, " (secret)"),
                            SummaryLine(VarB, EnvValue, ""),
                            <<"">> >>

\* a deploy that got as far as its file: a client was built and the file exists
DeployFromFile ==
    inv.cmd = "deploy" /\ FileMode /\ KeyResolvable /\ world.workflow_yaml_exists

\* the input problems deploy can see without the server: the file cannot be
\* read, its content is not YAML or not a mapping with a mapping under
\* "workflow", an -e item has no "="
Unreadable == DeployFromFile /\ ~world.read
NotWorkflowDocument ==
    DeployRead /\ world.yaml.kind \in {"invalid", "not_mapping", "workflow_not_mapping"}
BadOverride == DeployRead /\ ~WellFormed(inv.env)

\* one line "Error: ..." or "Error reading file: ..." on stderr
FormattedError ==
    /\ Len(stderr) = 1
    /\ stderr[1].label \in {"Error", "Error reading file"}

\* C20: a file-based deploy whose file is unreadable, whose content is not a
\* valid workflow document or which has an -e item not of the form KEY=VALUE
\* ends with exit code 1, one formatted error message and no request,
\* whatever the environment section declares and whatever is missing.
C20_LocalProblemsReported ==
    (Unreadable \/ NotWorkflowDocument \/ BadOverride)
    => /\ Done
       /\ exit_code = 1
       /\ requests = <<>>
       /\ FormattedError

\* C21: an invocation sends at most one request, a deploy that works from a
\* file at most two; an upsert is sent only by a deploy that works from a
\* file, as its first request, and the request after it is a deploy.
C21_RequestCount ==
    /\ Len(requests) <= (IF FileMode THEN 2 ELSE 1)
    /\ \A j \in 1..Len(requests) :
          requests[j].payload.action = "upsert" => (FileMode /\ j = 1)
    /\ Len(requests) = 2
       => (requests[1].payload.action = "upsert"
           /\ requests[2].payload.action = "deploy")
    /\ Len(responses) <= Len(requests)

C21_Witness ==
    /\ FileMode
    /\ pc = "awaiting"
    /\ Len(requests) = 2
    /\ Len(responses) = 1
    /\ requests[1].payload.action = "upsert"
    /\ requests[2].payload.action = "deploy"

\* the actions that belong to a command
CommandActions(cmd) ==
    CASE cmd = "list" -> {"list"}
      [] cmd = "get" -> {"get"}
      [] cmd = "delete" -> {"delete"}
      [] cmd = "stop" -> {"stop"}
      [] cmd = "status" -> {"status"}
      [] cmd = "versions" -> {"list_versions"}
      [] cmd = "get-version" -> {"get_version"}
      [] cmd = "restore" -> {"restore_version"}
      [] cmd = "start" -> {"deploy"}
      [] cmd = "deploy" -> {"upsert", "deploy"}
      [] OTHER -> {}

\* C22: every request has an action field, and its action is one of the
\* command that was invoked: list, get, delete, stop and status send the
\* action of their name, versions list_versions, get-version get_version,
\* restore restore_version, start deploy, and deploy upsert or deploy.
C22_OwnActions ==
    \A j \in 1..Len(requests) :
        /\ "action" \in DOMAIN requests[j].payload
        /\ requests[j].payload.action \in CommandActions(inv.cmd)

C22_Witness ==
    /\ inv.cmd = "versions"
    /\ Done
    /\ exit_code = 0
    /\ Len(requests) = 1
    /\ requests[1].payload = [action |-> "list_versions", workflow_id |-> inv.workflow_id]

\* the summary line of an entry of the returned list
LineOf(entry) ==
    SummaryLine(entry.name,
                IF entry.secret THEN Mask ELSE entry.value,
                IF entry.secret THEN " (secret)" ELSE "")

\* the echoed lines are a header, one line for each entry of the returned
\* list in ascending order of the names, and an empty line
SummaryShown ==
    /\ Len(gathered.echoed) = Len(gathered.value) + 2
    /\ gathered.echoed[1] = <<"\nEnvironment variables:">>
    /\ gathered.echoed[Len(gathered.echoed)] = <<"">>
    /\ \A j \in 1..Len(gathered.value) :
          \E k \in 2..(Len(gathered.echoed) - 1) :
              gathered.echoed[k] = LineOf(gathered.value[j])
    /\ \A k \in 2..(Len(gathered.echoed) - 1) :
          \A l \in (k + 1)..(Len(gathered.echoed) - 1) :
              StrLess(gathered.echoed[k][2], gathered.echoed[l][2])

\* C23: whenever the reconciliation returns a non-empty list it has echoed a
\* summary with exactly one line per entry, in ascending order of the names,
\* the value masked exactly when the entry is secret; with declarations in
\* the YAML and with variables from -e items only.
C23_SummaryOfResult ==
    (gathered.called /\ gathered.raised = "" /\ gathered.value # <<>>)
    => SummaryShown

\* the answer to the upsert is a success whose body holds a non-empty workflow id
PushGaveId ==
    /\ ~Failed(responses[1])
    /\ Parsed(responses[1]).has_workflow
    /\ Truthy(Parsed(responses[1]).workflow.id)

CouldNotGetWorkflowId ==
    <<Line("Error", <<"Could not get workflow ID from push response">>)>>

\* C24: in a deploy that works from a file, an upsert answered with success
\* but without a workflow object or with an empty id ends the invocation with
\* exit code 1 and its error message, and no deploy request is sent; a
\* request that follows an upsert is the deploy of a non-empty workflow_id.
C24_NoIdNoDeploy ==
    /\ (FileMode /\ responses # <<>> /\ ~Failed(responses[1]) /\ ~PushGaveId)
       => /\ Done
          /\ exit_code = 1
          /\ stderr = CouldNotGetWorkflowId
          /\ Len(requests) = 1
          /\ Len(calls) = 1
    /\ Len(requests) >= 2
       => /\ PushGaveId
          /\ DOMAIN requests[2].payload = {"action", "workflow_id"}
          /\ requests[2].payload.action = "deploy"
          /\ Truthy(requests[2].payload.workflow_id)

C24_Witness ==
    /\ FileMode
    /\ Len(responses) = 1
    /\ responses[1].status = 200
    /\ responses[1].body.has_workflow
    /\ responses[1].body.workflow.id = ""
    /\ Done
    /\ exit_code = 1
    /\ stderr = CouldNotGetWorkflowId
    /\ Len(requests) = 1

\* C25: the list the reconciliation returns has no two entries of the same
\* name, whatever is declared (a name declared twice included) and whatever
\* is overridden; a key given in several -e items has the value of the last
\* one; an entry is secret exactly when some declaration of its name says
\* secret.
C25_DistinctNames ==
    (gathered.called /\ gathered.raised = "")
    => /\ \A j, k \in 1..Len(gathered.value) :
             gathered.value[j].name = gathered.value[k].name => j = k
       /\ \A key \in OverrideKeys(inv.env) :
             \E j \in 1..Len(gathered.value) :
                 /\ gathered.value[j].name = key
                 /\ gathered.value[j].value = LastOverrideValue(inv.env, key)
       /\ \A j \in 1..Len(gathered.value) :
             gathered.value[j].secret = DeclaredSecret(world.yaml, gathered.value[j].name)

C25_Witness ==
    /\ gathered.called
    /\ gathered.raised = ""
    /\ world.yaml.environment = <<DeclStr(VarA), DeclObj(TRUE, VarA, TRUE, TRUE)>>
    /\ VarA \in DOMAIN world.environ
    /\ inv.env = << <<"A", "=", "2">>, <<"A", "=", "3">> >>
    /\ gathered.value = <<Entry(VarA, <<"3">>, TRUE)>>

\* C26: an upsert request carries the YAML as it was read in workflow_yaml;
\* it has an env field exactly when the reconciled list is not empty, and
\* then that list; it has a stage field exactly when --stage, or ETLR_STAGE
\* in its absence, is not empty, and then that stage; besides action it has
\* no other field.
C26_UpsertPayload ==
    \A j \in 1..Len(requests) :
        LET p == requests[j].payload
        IN  p.action = "upsert"
            => /\ DOMAIN p \subseteq {"action", "workflow_yaml", "env", "stage"}
               /\ p.workflow_yaml = world.yaml
               /\ ("env" \in DOMAIN p) = (gathered.value # <<>>)
               /\ "env" \in DOMAIN p => p.env = gathered.value
               /\ ("stage" \in DOMAIN p) = Truthy(StageGiven)
               /\ "stage" \in DOMAIN p => p.stage = StageGiven

C26_Witness ==
    /\ FileMode
    /\ inv.stage = None
    /\ inv.ETLR_STAGE = "staging"
    /\ world.yaml.kind = "environment"
    /\ gathered.value # <<>>
    /\ Len(requests) = 1
    /\ requests[1].payload =
           [action |-> "upsert", workflow_yaml |-> world.yaml, env |-> gathered.value,
            stage |-> "staging"]

====
